---- MODULE Spec2Model ----
(***************************************************************************)
(* A model of qr-score: the decode ensemble (decoder.rs), the stress       *)
(* matrix and the score aggregation (scorer.rs), and the validation        *)
(* pipeline (lib.rs).                                                      *)
(*                                                                         *)
(* The external decoders (rxing, rqrr) are inputs: every call of a         *)
(* decoder draws its outcome, which is a decoded symbol ("ok"), a          *)
(* reported failure ("err") or a crash ("panic": a Rust panic unwinding    *)
(* out of the library call).                                               *)
(***************************************************************************)
EXTENDS Integers, Sequences, FiniteSets, TLC

VARIABLES
    pc,         \* position of the running operation
    attempts,   \* try_decode: the strategies attempted so far, in order
    tdResult,   \* try_decode: what it handed to its caller
    img,        \* validate: the loaded raster (width, height)
    vResult,    \* validate: what it handed to its caller
    base,       \* run_stress_tests: how the image's variants decode in general
    faults,     \* run_stress_tests: variants that decoded unlike the base so far
    wnext,      \* run_stress_tests: per worker, the next variant of its chunk
    wout,       \* run_stress_tests: per worker, the (name, passed) pairs it produced
    stress,     \* StressResults: tests map and contrast_ratio (per mille)
    weights,    \* Weights: tests map and contrast_ratio weight
    score,      \* calculate_score's return value
    divisor,    \* calculate_score: the divisor of line 76, -1 while it was not executed
    grade,      \* grade_from_score's return value
    pixels,     \* measure_contrast: the image, as the number of pixels of each colour
    contrast,   \* measure_contrast: its return value (per mille) and its percentile bins
    cli,        \* score_svg_bytes: the document, the sizes and the Result it returned
    payload     \* main: what was printed on stdout, and the exit code

vars == <<pc, attempts, tdResult, img, vResult, base, faults, wnext, wout,
          stress, weights, score, divisor, grade, pixels, contrast, cli, payload>>

(***************************************************************************)
(* Bounds of the model.                                                    *)
(***************************************************************************)
MaxFaults == 1          \* variants of one stress run that decode unlike the base
NumWorkers == 2         \* parallel workers of the stress fan-out
NumScoreKeys == 2       \* variant names used by the score inputs
MaxWeight == 2          \* largest weight of the score inputs
MaxCount == 21          \* most pixels of one colour in a measured image

----------------------------------------------------------------------------
(***************************************************************************)
(* Types (types.rs) and the decoders' outcomes.                            *)
(***************************************************************************)

\* ErrorCorrectionLevel, and "None" for Option::None.
ErrorCorrectionLevel == {"L", "M", "Q", "H"}

Contents == {"https://example.com", "hello"}

\* What rxing's ERROR_CORRECTION_LEVEL metadata can hold: no entry
\* ("absent"), or a string, which may or may not name a level.
RxingEcStrings == {"absent", "L", "M", "Q", "H", "X", ""}

\* What rqrr's MetaData.ecc_level (u16) can hold.
RqrrEccLevels == {0, 1, 2, 3, 99}

NoOutcome(o) == [out |-> o, text |-> "", ec_str |-> "absent", ecc_level |-> 0]

\* The outcomes of one call of reader.decode_with_hints inside the closure.
RxingOutcomes ==
    {NoOutcome("err"), NoOutcome("panic")}
    \cup {[out |-> "ok", text |-> t, ec_str |-> e, ecc_level |-> 0] :
            t \in Contents, e \in RxingEcStrings}

\* The outcomes of prepare / detect_grids / grid.decode.
RqrrOutcomes ==
    {NoOutcome("err"), NoOutcome("panic")}
    \cup {[out |-> "ok", text |-> t, ec_str |-> "absent", ecc_level |-> l] :
            t \in Contents, l \in RqrrEccLevels}

Strategies == <<"rxing_hybrid", "rxing_global_histogram", "rqrr", "rqrr_inverted">>

parse_ec_level(s) ==
    CASE s = "L" -> "L"
      [] s = "M" -> "M"
      [] s = "Q" -> "Q"
      [] s = "H" -> "H"
      [] OTHER -> "None"

convert_rqrr_ec(level) ==
    CASE level = 0 -> "M"
      [] level = 1 -> "L"
      [] level = 2 -> "H"
      [] level = 3 -> "Q"
      [] OTHER -> "M"

\* Result<RawDecode>: tag "Ok" with the RawDecode's fields, tag "Err"
\* (QrScoreError::DecodeFailed), or tag "Panic": the call did not return,
\* the panic unwinds into the caller.
RawOk(content, ec) == [tag |-> "Ok", content |-> content, error_correction |-> ec]
RawErr == [tag |-> "Err", content |-> "", error_correction |-> "None"]
RawPanic == [tag |-> "Panic", content |-> "", error_correction |-> "None"]

\* catch_unwind turns a panic of the closure into Err, map_err turns both
\* into DecodeFailed; the metadata entry is parsed only when it is present.
decode_rxing_with(o) ==
    IF o.out = "ok"
    THEN RawOk(o.text, IF o.ec_str = "absent" THEN "None" ELSE parse_ec_level(o.ec_str))
    ELSE RawErr

\* No catch_unwind here: a panic inside rqrr leaves decode_rqrr by unwinding.
decode_rqrr(o) ==
    CASE o.out = "ok" -> RawOk(o.text, convert_rqrr_ec(o.ecc_level))
      [] o.out = "err" -> RawErr
      [] OTHER -> RawPanic

\* The bug of a missing default: the decoder's Option is passed on as it is.
into_result_NoDefault(r) ==
    [tag |-> "Ok", content |-> r.content, error_correction |-> r.error_correction]

\* RawDecode::into_result: DecodeResult with metadata Some(...), level M by default.
into_result(r) ==
    [tag |-> "Ok", content |-> r.content,
     error_correction |-> IF r.error_correction = "None" THEN "M" ELSE r.error_correction]

DecodeFailed == [tag |-> "Err", content |-> "", error_correction |-> "None"]
Unwinding == [tag |-> "Panic", content |-> "", error_correction |-> "None"]
NoResult == [tag |-> "None", content |-> "", error_correction |-> "None"]

\* try_decode as a function of the four decoder outcomes it would draw.
try_decode(outs) ==
    LET r1 == decode_rxing_with(outs[1])
        r2 == decode_rxing_with(outs[2])
        r3 == decode_rqrr(outs[3])
        r4 == decode_rqrr(outs[4])
    IN  IF r1.tag = "Ok" THEN into_result(r1)
        ELSE IF r2.tag = "Ok" THEN into_result(r2)
        ELSE IF r3.tag = "Panic" THEN Unwinding
        ELSE IF r3.tag = "Ok" THEN into_result(r3)
        ELSE IF r4.tag = "Panic" THEN Unwinding
        ELSE IF r4.tag = "Ok" THEN into_result(r4)
        ELSE DecodeFailed

----------------------------------------------------------------------------
(***************************************************************************)
(* try_decode, one step per strategy (decoder.rs 86-109).                  *)
(***************************************************************************)

DecodeIdle ==
    /\ attempts = <<>>
    /\ tdResult = NoResult

\* The colours of the measured images and the state before a measurement.
Colours == {"black", "grey", "white"}
NoPixels == [c \in Colours |-> 0]
NoContrast == [done |-> FALSE, empty |-> FALSE, value |-> 0, p5 |-> 0, p95 |-> 0,
               reached |-> FALSE]

ContrastIdle ==
    /\ pixels = NoPixels
    /\ contrast = NoContrast

\* The state before the command line tool ran.
NoError == [tag |-> "None", width |-> 0, height |-> 0, max_dimension |-> 0]
NoCli == [svg |-> "none", native |-> 0, config_render_size |-> 0, render_size |-> 0,
          rendered |-> FALSE, result |-> "None", error |-> NoError]
NoPayload == [kind |-> "none", exit |-> -1]

CliIdle ==
    /\ cli = NoCli
    /\ payload = NoPayload

ImageIdle ==
    /\ img = [loaded |-> FALSE, width |-> 0, height |-> 0]
    /\ vResult = [tag |-> "None", width |-> 0, height |-> 0, max_dimension |-> 0,
                  score |-> 0, decodable |-> FALSE, content |-> "",
                  error_correction |-> "None"]

OtherIdle ==
    /\ ImageIdle
    /\ ContrastIdle
    /\ CliIdle

\* The bug of a missing `return`: a success is recorded and the next
\* strategy runs all the same.
AttemptStep_NoEarlyReturn(s, o, r, next) ==
    /\ attempts' = Append(attempts, [strategy |-> Strategies[s], raw |-> o.out,
                          ec_str |-> o.ec_str, ecc_level |-> o.ecc_level, res |-> r])
    /\ IF r.tag = "Panic"
       THEN /\ tdResult' = Unwinding
            /\ pc' = "td_done"
       ELSE IF next = "td_done"
       THEN /\ tdResult' = IF r.tag = "Ok" THEN into_result(r)
                            ELSE IF tdResult.tag = "Ok" THEN tdResult ELSE DecodeFailed
            /\ pc' = "td_done"
       ELSE /\ tdResult' = IF r.tag = "Ok" THEN into_result(r) ELSE tdResult
            /\ pc' = next

\* One `if let Ok(r) = ... { return Ok(r.into_result()) }` of try_decode:
\* strategy number s ran with decoder outcome o and gave r; on failure
\* control goes on to `next`.
AttemptStep(s, o, r, next) ==
    /\ attempts' = Append(attempts, [strategy |-> Strategies[s], raw |-> o.out,
                          ec_str |-> o.ec_str, ecc_level |-> o.ecc_level, res |-> r])
    /\ IF r.tag = "Ok"
       THEN /\ tdResult' = into_result(r)
            /\ pc' = "td_done"
       ELSE IF r.tag = "Panic"
       THEN /\ tdResult' = Unwinding
            /\ pc' = "td_done"
       ELSE IF next = "td_done"
       THEN /\ tdResult' = DecodeFailed
            /\ pc' = "td_done"
       ELSE /\ tdResult' = tdResult
            /\ pc' = next

TryRxingHybrid ==
    /\ pc = "td_hybrid"
    /\ \E o \in RxingOutcomes : AttemptStep(1, o, decode_rxing_with(o), "td_global")
    /\ UNCHANGED <<img, vResult, base, faults, wnext, wout, stress, weights, score,
                   divisor, grade, pixels, contrast, cli, payload>>

TryRxingGlobalHistogram ==
    /\ pc = "td_global"
    /\ \E o \in RxingOutcomes : AttemptStep(2, o, decode_rxing_with(o), "td_rqrr")
    /\ UNCHANGED <<img, vResult, base, faults, wnext, wout, stress, weights, score,
                   divisor, grade, pixels, contrast, cli, payload>>

TryRqrr ==
    /\ pc = "td_rqrr"
    /\ \E o \in RqrrOutcomes : AttemptStep(3, o, decode_rqrr(o), "td_rqrr_inv")
    /\ UNCHANGED <<img, vResult, base, faults, wnext, wout, stress, weights, score,
                   divisor, grade, pixels, contrast, cli, payload>>

\* The last strategy; when it fails too, try_decode returns Err(DecodeFailed).
TryRqrrInverted ==
    /\ pc = "td_rqrr_inv"
    /\ \E o \in RqrrOutcomes : AttemptStep(4, o, decode_rqrr(o), "td_done")
    /\ UNCHANGED <<img, vResult, base, faults, wnext, wout, stress, weights, score,
                   divisor, grade, pixels, contrast, cli, payload>>

NoStress == [done |-> FALSE, tests |-> <<>>, contrast_ratio |-> 0]
NoWeights == [tests |-> <<>>, contrast_ratio |-> 0]

ScoreIdle ==
    /\ base = "none"
    /\ faults = 0
    /\ wnext = <<>>
    /\ wout = <<>>
    /\ stress = NoStress
    /\ weights = NoWeights
    /\ score = 0
    /\ divisor = -1
    /\ grade = "none"

InitDecode ==
    /\ pc = "td_hybrid"
    /\ DecodeIdle
    /\ OtherIdle
    /\ ScoreIdle

NextDecode ==
    \/ TryRxingHybrid
    \/ TryRxingGlobalHistogram
    \/ TryRqrr
    \/ TryRqrrInverted

SpecDecode == InitDecode /\ [][NextDecode]_vars

----------------------------------------------------------------------------
(***************************************************************************)
(* run_stress_tests (scorer.rs 14-58).                                     *)
(***************************************************************************)

\* The 22 variants, in the order of the `variants` vector.
VariantNames ==
    <<"downscale_1x", "downscale_2x", "downscale_3x", "downscale_4x",
      "blur_light", "blur_heavy",
      "contrast_up", "contrast_down", "contrast_strict_up", "contrast_strict_down",
      "luminance_up", "luminance_down", "luminance_strict_up", "luminance_strict_down",
      "hue_up", "hue_down", "hue_strict_up", "hue_strict_down",
      "saturation_up", "saturation_down", "saturation_strict_up",
      "saturation_strict_down">>

NumVariants == Len(VariantNames)

\* measure_contrast's return value in thousandths (p95 - p5 over 1001 bins).
ContrastValues == {0, 350, 700, 1000}

\* How the decoders behave on one variant: the four outcomes try_decode
\* would draw on it.
OkOutcome == [out |-> "ok", text |-> "hello", ec_str |-> "Q", ecc_level |-> 0]
Profile(p) ==
    CASE p = "pass" -> <<OkOutcome, NoOutcome("err"), NoOutcome("err"), NoOutcome("err")>>
      [] p = "fail" -> <<NoOutcome("err"), NoOutcome("err"), NoOutcome("err"), NoOutcome("err")>>
      [] p = "crash" -> <<NoOutcome("err"), NoOutcome("panic"), NoOutcome("panic"), NoOutcome("err")>>
      [] OTHER -> <<NoOutcome("panic"), NoOutcome("err"), NoOutcome("err"),
                    [out |-> "ok", text |-> "hello", ec_str |-> "absent", ecc_level |-> 2]>>

BaseProfiles == {"pass", "fail"}
ProfileNames == {"pass", "fail", "crash", "late_pass"}

\* The bug of taking an unwound decode for a pass.
variant_passed_UnwrapOrTrue(p) ==
    LET r == try_decode(Profile(p))
    IN  IF r.tag = "Panic" THEN TRUE ELSE r.tag = "Ok"

\* The closure of the parallel map: catch_unwind(|| try_decode(variant).is_ok())
\* .unwrap_or(false), on a variant whose decoders behave as profile p.
variant_passed(p) ==
    LET r == try_decode(Profile(p))
    IN  IF r.tag = "Panic" THEN FALSE ELSE r.tag = "Ok"

\* The part of the variants vector that worker w maps: the vector is cut
\* into NumWorkers contiguous pieces.
ChunkLo(w) == ((w - 1) * NumVariants) \div NumWorkers + 1
ChunkHi(w) == (w * NumVariants) \div NumWorkers

\* The bug of a shared output slot: only the last worker's pairs survive.
RECURSIVE Concat_LastWins(_, _)
Concat_LastWins(seqs, n) == IF n = 0 THEN <<>> ELSE seqs[n]

\* The pieces of the workers joined in the order of the input vector.
RECURSIVE Concat(_, _)
Concat(seqs, n) == IF n = 0 THEN <<>> ELSE Concat(seqs, n - 1) \o seqs[n]

\* collect() into a BTreeMap: the pairs are inserted one after another, a
\* later pair of the same key replaces the earlier one.
RECURSIVE InsertAll(_, _, _)
InsertAll(map, pairs, n) ==
    IF n = 0 THEN map
    ELSE (pairs[n].name :> pairs[n].passed) @@ InsertAll(map, pairs, n - 1)

FromPairs(pairs) == InsertAll(<<>>, pairs, Len(pairs))

\* Lines 15-42: the contrast is measured once and the variants are built.
StressBegin ==
    /\ pc = "st_start"
    /\ \E c \in ContrastValues : stress' = [NoStress EXCEPT !.contrast_ratio = c]
    /\ wnext' = [w \in 1..NumWorkers |-> ChunkLo(w)]
    /\ wout' = [w \in 1..NumWorkers |-> <<>>]
    /\ pc' = "st_par"
    /\ UNCHANGED <<attempts, tdResult, img, vResult, base, faults, weights, score,
                   divisor, grade, pixels, contrast, cli, payload>>

\* Lines 43-52: a worker maps the next variant of its piece.
EvalVariant(w) ==
    /\ pc = "st_par"
    /\ wnext[w] <= ChunkHi(w)
    /\ \E p \in ProfileNames :
        /\ \/ p = base /\ faults' = faults
           \/ p # base /\ faults < MaxFaults /\ faults' = faults + 1
        /\ wout' = [wout EXCEPT ![w] = Append(@,
                        [name |-> VariantNames[wnext[w]], passed |-> variant_passed(p),
                         decode |-> try_decode(Profile(p)).tag])]
    /\ wnext' = [wnext EXCEPT ![w] = @ + 1]
    /\ UNCHANGED <<pc, attempts, tdResult, img, vResult, base, stress, weights, score,
                   divisor, grade, pixels, contrast, cli, payload>>

EvalSomeVariant == \E w \in 1..NumWorkers : EvalVariant(w)

\* Lines 52-57: the join; the pairs of all workers are collected into the map.
StressCollect ==
    /\ pc = "st_par"
    /\ \A w \in 1..NumWorkers : wnext[w] > ChunkHi(w)
    /\ stress' = [stress EXCEPT !.done = TRUE,
                                !.tests = FromPairs(Concat(wout, NumWorkers))]
    /\ pc' = "st_done"
    /\ UNCHANGED <<attempts, tdResult, img, vResult, base, faults, wnext, wout, weights,
                   score, divisor, grade, pixels, contrast, cli, payload>>

InitStress ==
    /\ pc = "st_start"
    /\ DecodeIdle
    /\ OtherIdle
    /\ base \in BaseProfiles
    /\ faults = 0
    /\ wnext = <<>>
    /\ wout = <<>>
    /\ stress = NoStress
    /\ weights = NoWeights
    /\ score = 0
    /\ divisor = -1
    /\ grade = "none"

NextStress ==
    \/ StressBegin
    \/ EvalSomeVariant
    \/ StressCollect

SpecStress == InitStress /\ [][NextStress]_vars

----------------------------------------------------------------------------
(***************************************************************************)
(* calculate_score and grade_from_score (scorer.rs 60-77, 185-193).        *)
(*                                                                         *)
(* contrast_ratio is held in thousandths and the f32 arithmetic is done    *)
(* in exact fractions over the common denominator 700 (0.7 in              *)
(* thousandths); the weights of the inputs stay far below the u32 and      *)
(* f32-mantissa limits, so no sum wraps or rounds.                         *)
(***************************************************************************)

\* Weights::default() (types.rs 29-60).
WeightsDefault ==
    [tests |->
        ("downscale_1x" :> 1) @@ ("downscale_2x" :> 2) @@ ("downscale_3x" :> 2)
        @@ ("downscale_4x" :> 2) @@ ("blur_light" :> 2) @@ ("blur_heavy" :> 1)
        @@ ("contrast_up" :> 2) @@ ("contrast_down" :> 2)
        @@ ("contrast_strict_up" :> 1) @@ ("contrast_strict_down" :> 1)
        @@ ("luminance_up" :> 2) @@ ("luminance_down" :> 2)
        @@ ("luminance_strict_up" :> 1) @@ ("luminance_strict_down" :> 1)
        @@ ("hue_up" :> 1) @@ ("hue_down" :> 1) @@ ("hue_strict_up" :> 1)
        @@ ("hue_strict_down" :> 1) @@ ("saturation_up" :> 1)
        @@ ("saturation_down" :> 1) @@ ("saturation_strict_up" :> 1)
        @@ ("saturation_strict_down" :> 1),
     contrast_ratio |-> 70]

RECURSIVE SumOver(_, _)
SumOver(f, keys) ==
    IF keys = {} THEN 0
    ELSE LET k == CHOOSE x \in keys : TRUE
         IN  f[k] + SumOver(f, keys \ {k})

\* Line 61: weights.tests.values().sum::<u32>() + weights.contrast_ratio.
total_weight(w) == SumOver(w.tests, DOMAIN w.tests) + w.contrast_ratio

\* The bug of an inverted filter: the failed tests are summed.
test_score_Failed(st, w) ==
    SumOver(w.tests, {k \in DOMAIN st.tests : ~st.tests[k] /\ k \in DOMAIN w.tests})

\* Lines 67-71: the weights of the passed tests that the table knows.
test_score(st, w) ==
    SumOver(w.tests, {k \in DOMAIN st.tests : st.tests[k] /\ k \in DOMAIN w.tests})

\* Line 73: (contrast_ratio / 0.7).clamp(0.0, 1.0), as a count of 700ths.
normalized(c) == IF c < 0 THEN 0 ELSE IF c > 700 THEN 700 ELSE c

\* Line 76: ((score / total) * 100.0).round().min(100.0) as u8, for the
\* score num/700. f32 division by zero gives an infinity or NaN, which
\* min(100.0) and the saturating cast turn into 100 (0 for -infinity);
\* round() rounds half away from zero.
percent_u8(num, total) ==
    IF total = 0 THEN (IF num < 0 THEN 0 ELSE 100)
    ELSE IF num < 0 THEN 0
    ELSE LET r == (200 * num + 700 * total) \div (1400 * total)
         IN  IF r > 100 THEN 100 ELSE r

\* The bug of a lost saturation: neither the contrast nor the percentage
\* is clamped.
calculate_score_trace_Unclamped(st, w) ==
    LET total == total_weight(w)
    IN  IF total = 0 THEN [score |-> 0, divisor |-> -1]
        ELSE LET num == 700 * test_score(st, w) + st.contrast_ratio * w.contrast_ratio
                 r == (200 * num + 700 * total) \div (1400 * total)
             IN  [score |-> IF r < 0 THEN 0 ELSE IF r > 255 THEN 255 ELSE r,
                  divisor |-> total]

\* The bug of a missing zero guard.
calculate_score_trace_NoGuard(st, w) ==
    LET total == total_weight(w)
    IN  [score |-> percent_u8(700 * test_score(st, w)
                              + normalized(st.contrast_ratio) * w.contrast_ratio, total),
         divisor |-> total]

\* calculate_score: its return value and the divisor the division used.
calculate_score_trace(st, w) ==
    LET total == total_weight(w)
    IN  IF total = 0 THEN [score |-> 0, divisor |-> -1]
        ELSE [score |-> percent_u8(700 * test_score(st, w)
                                   + normalized(st.contrast_ratio) * w.contrast_ratio,
                                   total),
              divisor |-> total]

calculate_score(st, w) == calculate_score_trace(st, w).score

\* The bug of an off-by-one band edge.
grade_from_score_OffByOne(s) ==
    IF s > 80 THEN "A"
    ELSE IF s >= 60 THEN "B"
    ELSE IF s >= 40 THEN "C"
    ELSE IF s >= 20 THEN "D"
    ELSE "F"

grade_from_score(s) ==
    IF s >= 80 THEN "A"
    ELSE IF s >= 60 THEN "B"
    ELSE IF s >= 40 THEN "C"
    ELSE IF s >= 20 THEN "D"
    ELSE "F"

\* The inputs of calculate_score: the stress outcome has the first
\* NumScoreKeys variant names as keys (or none, StressResults::default());
\* the weight table has any of them and possibly a key outside the
\* vocabulary.
ScoreVariants == {VariantNames[i] : i \in 1..NumScoreKeys}
UnknownKey == "unknown_key"
WeightKeys == ScoreVariants \cup {UnknownKey}
WeightTables == UNION {[D -> 0..MaxWeight] : D \in SUBSET WeightKeys}
StressTests == [ScoreVariants -> BOOLEAN] \cup [{} -> BOOLEAN]

CalculateScore ==
    /\ pc = "sc_start"
    /\ score' = calculate_score_trace(stress, weights).score
    /\ divisor' = calculate_score_trace(stress, weights).divisor
    /\ pc' = "sc_done"
    /\ UNCHANGED <<attempts, tdResult, img, vResult, base, faults, wnext, wout, stress,
                   weights, grade, pixels, contrast, cli, payload>>

GradeFromScore ==
    /\ pc \in {"sc_done", "gr_start"}
    /\ grade' = grade_from_score(score)
    /\ pc' = "gr_done"
    /\ UNCHANGED <<attempts, tdResult, img, vResult, base, faults, wnext, wout, stress,
                   weights, score, divisor, pixels, contrast, cli, payload>>

InitScore ==
    /\ pc = "sc_start"
    /\ DecodeIdle
    /\ OtherIdle
    /\ base = "none"
    /\ faults = 0
    /\ wnext = <<>>
    /\ wout = <<>>
    /\ \E t \in StressTests, c \in ContrastValues :
            stress = [done |-> TRUE, tests |-> t, contrast_ratio |-> c]
    /\ \E t \in WeightTables, cw \in 0..MaxWeight :
            weights = [tests |-> t, contrast_ratio |-> cw]
    /\ score = 0
    /\ divisor = -1
    /\ grade = "none"

NextScore ==
    \/ CalculateScore
    \/ GradeFromScore

SpecScore == InitScore /\ [][NextScore]_vars

\* grade_from_score on every u8.
InitGrade ==
    /\ pc = "gr_start"
    /\ DecodeIdle
    /\ OtherIdle
    /\ base = "none"
    /\ faults = 0
    /\ wnext = <<>>
    /\ wout = <<>>
    /\ stress = NoStress
    /\ weights = NoWeights
    /\ score \in 0..255
    /\ divisor = -1
    /\ grade = "none"

NextGrade == GradeFromScore

SpecGrade == InitGrade /\ [][NextGrade]_vars

----------------------------------------------------------------------------
(***************************************************************************)
(* validate (lib.rs 15-48) and scorer::validate (scorer.rs 8-12).          *)
(***************************************************************************)

MAX_DIMENSION == 10000

\* Widths and heights of the loaded rasters (u32).
DimValues == {1, 10000, 10001, 65536, 1073741824}

\* width.checked_mul(height).is_none(): the product exceeds u32::MAX =
\* 2 * 2147483647 + 1. The quotient u32::MAX / w is computed from the
\* halves, so that no intermediate value leaves the 32-bit signed range.
checked_mul_is_none(w, h) ==
    IF w <= 1 THEN FALSE
    ELSE LET q == 2147483647 \div w
             r == 2147483647 % w
         IN  h > 2 * q + (2 * r + 1) \div w

VError(tag, w, h, m) ==
    [tag |-> tag, width |-> w, height |-> h, max_dimension |-> m,
     score |-> 0, decodable |-> FALSE, content |-> "", error_correction |-> "None"]

VOk == VError("Ok", 0, 0, 0)

\* The bug of guarding one side only.
validate_dimensions_WidthOnly(width, height) ==
    IF width > MAX_DIMENSION
    THEN VError("DimensionsTooLarge", width, height, MAX_DIMENSION)
    ELSE IF checked_mul_is_none(width, height)
    THEN VError("DimensionOverflow", width, height, 0)
    ELSE VOk

\* The bug of testing the product before the sides.
validate_dimensions_OverflowFirst(width, height) ==
    IF checked_mul_is_none(width, height)
    THEN VError("DimensionOverflow", width, height, 0)
    ELSE IF width > MAX_DIMENSION \/ height > MAX_DIMENSION
    THEN VError("DimensionsTooLarge", width, height, MAX_DIMENSION)
    ELSE VOk

validate_dimensions(width, height) ==
    IF width > MAX_DIMENSION \/ height > MAX_DIMENSION
    THEN VError("DimensionsTooLarge", width, height, MAX_DIMENSION)
    ELSE IF checked_mul_is_none(width, height)
    THEN VError("DimensionOverflow", width, height, 0)
    ELSE VOk

\* run_stress_tests as a function of how the decoders behave on each
\* variant (profiles[i] for variant i) and of the measured contrast c.
run_stress_tests(profiles, c) ==
    [done |-> TRUE,
     tests |-> FromPairs([i \in 1..NumVariants |->
                            [name |-> VariantNames[i],
                             passed |-> variant_passed(profiles[i])]]),
     contrast_ratio |-> c]

\* The decoder behaviours over the variants that validate is run on: the
\* same on every variant, or passing on all but one, which crashes.
StressScenarios ==
    {[i \in 1..NumVariants |-> p] : p \in ProfileNames}
    \cup {[i \in 1..NumVariants |-> IF i = j THEN "crash" ELSE "pass"] :
            j \in 1..NumVariants}

\* The dimensions of the image that validate is given: any, or those of the
\* square pixmap of svg_to_png when score_svg_bytes passes its rendering.
LoadDims ==
    IF cli.rendered THEN {<<cli.render_size, cli.render_size>>}
    ELSE DimValues \X DimValues

\* Lines 32-33: image::load_from_memory.
ValidateLoad ==
    /\ pc = "v_start"
    /\ \/ /\ vResult' = VError("ImageLoad", 0, 0, 0)
          /\ img' = img
          /\ pc' = "v_done"
       \/ /\ \E d \in LoadDims :
                img' = [loaded |-> TRUE, width |-> d[1], height |-> d[2]]
          /\ vResult' = vResult
          /\ pc' = "v_dims"
    /\ UNCHANGED <<attempts, tdResult, base, faults, wnext, wout, stress, weights,
                   score, divisor, grade, pixels, contrast, cli, payload>>

\* Lines 35-36: validate_dimensions(width, height)?.
ValidateDimensions ==
    /\ pc = "v_dims"
    /\ LET r == validate_dimensions(img.width, img.height)
       IN  IF r.tag = "Ok"
           THEN /\ vResult' = vResult
                /\ pc' = "td_hybrid"
           ELSE /\ vResult' = r
                /\ pc' = "v_done"
    /\ UNCHANGED <<attempts, tdResult, img, base, faults, wnext, wout, stress, weights,
                   score, divisor, grade, pixels, contrast, cli, payload>>

\* The bug of a dropped `?`: a failed baseline decode is scored all the same.
ValidateDecoded_IgnoresError ==
    /\ pc = "td_done"
    /\ IF tdResult.tag \in {"Ok", "Err"}
       THEN /\ vResult' = vResult
            /\ pc' = "v_score"
       ELSE /\ vResult' = VError("Panic", 0, 0, 0)
            /\ pc' = "v_done"
    /\ UNCHANGED <<attempts, tdResult, img, base, faults, wnext, wout, stress, weights,
                   score, divisor, grade, pixels, contrast, cli, payload>>

\* Line 38: decoder::try_decode(&img)? has come back: an Err is returned
\* to the caller, a panic unwinds through validate.
ValidateDecoded ==
    /\ pc = "td_done"
    /\ IF tdResult.tag = "Ok"
       THEN /\ vResult' = vResult
            /\ pc' = "v_score"
       ELSE IF tdResult.tag = "Err"
       THEN /\ vResult' = VError("DecodeFailed", 0, 0, 0)
            /\ pc' = "v_done"
       ELSE /\ vResult' = VError("Panic", 0, 0, 0)
            /\ pc' = "v_done"
    /\ UNCHANGED <<attempts, tdResult, img, base, faults, wnext, wout, stress, weights,
                   score, divisor, grade, pixels, contrast, cli, payload>>

\* Lines 39-47: scorer::validate runs the stress matrix and the score, and
\* the ValidationResult is built.
ValidateScore ==
    /\ pc = "v_score"
    /\ \E sc \in StressScenarios, c \in ContrastValues :
        LET st == run_stress_tests(sc, c)
            t == calculate_score_trace(st, weights)
        IN  /\ stress' = st
            /\ score' = t.score
            /\ divisor' = t.divisor
            /\ vResult' = [tag |-> "Ok", width |-> 0, height |-> 0, max_dimension |-> 0,
                           score |-> t.score, decodable |-> TRUE,
                           content |-> tdResult.content,
                           error_correction |-> tdResult.error_correction]
    /\ pc' = "v_done"
    /\ UNCHANGED <<attempts, tdResult, img, base, faults, wnext, wout, weights, grade,
                   pixels, contrast, cli, payload>>

InitValidate ==
    /\ pc = "v_start"
    /\ DecodeIdle
    /\ OtherIdle
    /\ base = "none"
    /\ faults = 0
    /\ wnext = <<>>
    /\ wout = <<>>
    /\ stress = NoStress
    /\ weights = WeightsDefault
    /\ score = 0
    /\ divisor = -1
    /\ grade = "none"

NextValidate ==
    \/ ValidateLoad
    \/ ValidateDimensions
    \/ TryRxingHybrid
    \/ TryRxingGlobalHistogram
    \/ TryRqrr
    \/ TryRqrrInverted
    \/ ValidateDecoded
    \/ ValidateScore

SpecValidate == InitValidate /\ [][NextValidate]_vars

----------------------------------------------------------------------------
(***************************************************************************)
(* Claims about the decode ensemble.                                       *)
(***************************************************************************)

\* C1: in try_decode a crash inside any of the four strategies' attempts is
\* caught and counted as that attempt's failure: the ensemble goes on to the
\* next strategy (or, after the last one, returns DecodeFailed) and the crash
\* never propagates to the caller of try_decode.
C1_CrashIsCaughtInEveryStrategy ==
    \A i \in 1..Len(attempts) :
        attempts[i].raw = "panic" =>
            /\ tdResult.tag # "Panic"
            /\ attempts[i].res.tag = "Err"
            /\ (i < 4 => (Len(attempts) > i \/ pc = "td_" \o
                            (CASE i = 1 -> "global" [] i = 2 -> "rqrr" [] OTHER -> "rqrr_inv")))
            /\ (i = 4 => tdResult = DecodeFailed)

\* C2: try_decode attempts the strategies in the fixed order rxing-hybrid,
\* rxing-global-histogram, rqrr, rqrr-inverted; it returns the outcome of the
\* first strategy that succeeds without attempting any later strategy; and it
\* returns DecodeFailed if and only if all four strategies were attempted and
\* each one failed.
C2_FixedOrderFirstSuccess ==
    /\ Len(attempts) <= 4
    /\ \A i \in 1..Len(attempts) : attempts[i].strategy = Strategies[i]
    /\ \A i \in 1..(Len(attempts) - 1) : attempts[i].res.tag = "Err"
    /\ (tdResult.tag = "Ok") <=>
          (Len(attempts) > 0 /\ attempts[Len(attempts)].res.tag = "Ok")
    /\ tdResult.tag = "Ok" =>
          /\ pc = "td_done"
          /\ tdResult = into_result(attempts[Len(attempts)].res)
    /\ (pc = "td_done" /\ tdResult = DecodeFailed) <=>
          (Len(attempts) = 4 /\ \A i \in 1..4 : attempts[i].res.tag = "Err")

\* C2's case: the third strategy succeeded after a caught crash of the first
\* and a failure of the second; the fourth was not attempted.
C2_Witness ==
    /\ pc = "td_done"
    /\ Len(attempts) = 3
    /\ attempts[1].raw = "panic"
    /\ attempts[2].raw = "err"
    /\ tdResult.tag = "Ok"
    /\ tdResult.content = "hello"

----------------------------------------------------------------------------
(***************************************************************************)
(* Claims about the stress matrix.                                         *)
(***************************************************************************)

\* Every (name, passed) pair the workers produced so far.
Produced ==
    UNION {{wout[w][i] : i \in 1..Len(wout[w])} : w \in DOMAIN wout}

\* C3: run_stress_tests always runs its full matrix to completion (until the
\* join it can always take a step, whatever the decodes did) and returns a
\* mapping whose key set is exactly the 22 fixed variant names, the key set of
\* the default weight table; a variant's entry is true exactly when its own
\* decode returned Ok, so a crash in a variant's decode makes that entry false
\* and changes no other entry.
C3_FullMatrixCrashIsFalse ==
    /\ pc \in {"st_start", "st_par"} => ENABLED NextStress
    /\ pc = "st_done" =>
        /\ DOMAIN stress.tests = {VariantNames[i] : i \in 1..NumVariants}
        /\ DOMAIN stress.tests = DOMAIN WeightsDefault.tests
        /\ Cardinality(DOMAIN stress.tests) = 22
        /\ Cardinality(Produced) = 22
        /\ \A e \in Produced : stress.tests[e.name] = (e.decode = "Ok")

\* C3's case: the run completed, the decode of blur_heavy crashed and every
\* other variant decoded; only blur_heavy's entry is false.
C3_Witness ==
    /\ pc = "st_done"
    /\ \E e \in Produced : e.name = "blur_heavy" /\ e.decode = "Panic"
    /\ \A n \in DOMAIN stress.tests : stress.tests[n] = (n # "blur_heavy")

----------------------------------------------------------------------------
(***************************************************************************)
(* Claims about the score and the grade.                                   *)
(***************************************************************************)

WithKey(w, k, v) == [w EXCEPT !.tests = (k :> v) @@ w.tests]
WithoutKey(w, k) == [w EXCEPT !.tests = [x \in (DOMAIN w.tests) \ {k} |-> w.tests[x]]]
ZeroWeights(w) == w.contrast_ratio = 0 /\ \A k \in DOMAIN w.tests : w.tests[k] = 0

\* C4: in calculate_score weight-table keys that do not occur in the stress
\* outcome are ignored: adding such a key with any weight, or removing one,
\* does not change the score; and a stress-outcome key that is absent from
\* the weight table contributes zero weight (its result does not matter).
C4_UnknownWeightKeysIgnored ==
    pc = "sc_done" =>
        /\ \A k \in WeightKeys \ (DOMAIN stress.tests \cup DOMAIN weights.tests) :
             \A v \in 0..MaxWeight :
                calculate_score(stress, WithKey(weights, k, v)) = score
        /\ \A k \in (DOMAIN weights.tests) \ (DOMAIN stress.tests) :
                calculate_score(stress, WithoutKey(weights, k)) = score
        /\ \A k \in (DOMAIN stress.tests) \ (DOMAIN weights.tests) :
                calculate_score([stress EXCEPT !.tests[k] = ~@], weights) = score

\* C5: for any weight table with positive total weight, a stress outcome in
\* which every variant is marked true and contrast_ratio >= 0.7 scores 100.
C5_AllPassHighContrastIs100 ==
    (/\ pc = "sc_done"
     /\ ~ZeroWeights(weights)
     /\ DOMAIN stress.tests # {}
     /\ \A k \in DOMAIN stress.tests : stress.tests[k]
     /\ stress.contrast_ratio >= 700)
    => score = 100

\* C6: with the weight table and contrast_ratio held fixed, a stress outcome
\* over the same keys in which every variant true here is true as well scores
\* at least as much.
C6_MonotonicInPassedVariants ==
    pc = "sc_done" =>
        \A t2 \in [DOMAIN stress.tests -> BOOLEAN] :
            (\A k \in DOMAIN stress.tests : stress.tests[k] => t2[k])
            => calculate_score([stress EXCEPT !.tests = t2], weights) >= score

\* C6's case: an outcome with more variants true that scores strictly more.
C6_Witness ==
    /\ pc = "sc_done"
    /\ \E t2 \in [DOMAIN stress.tests -> BOOLEAN] :
        /\ \A k \in DOMAIN stress.tests : stress.tests[k] => t2[k]
        /\ \E k \in DOMAIN stress.tests : ~stress.tests[k] /\ t2[k]
        /\ calculate_score([stress EXCEPT !.tests = t2], weights) > score
    /\ score > 0

\* C7: when all test weights and the contrast weight are 0, calculate_score
\* returns 0 for any stress outcome, and the division is never executed with
\* a zero divisor.
C7_ZeroTotalWeightIsZero ==
    /\ divisor # 0
    /\ (pc = "sc_done" /\ ZeroWeights(weights)) => (score = 0 /\ divisor = -1)

\* C7's case: a table of zero weights scored against passed variants and
\* full contrast.
C7_Witness ==
    /\ pc = "sc_done"
    /\ ZeroWeights(weights)
    /\ DOMAIN weights.tests = WeightKeys
    /\ DOMAIN stress.tests # {}
    /\ \A k \in DOMAIN stress.tests : stress.tests[k]
    /\ stress.contrast_ratio = 1000
    /\ score = 0

\* C8: for every stress outcome and every weight table of non-negative
\* weights calculate_score returns an integer in 0..100.
C8_ScoreInRange ==
    pc = "sc_done" => score \in 0..100

\* C8's case: the contrast is above the saturation point 0.7 and counts,
\* every variant passed, and the score is exactly 100.
C8_Witness ==
    /\ pc = "sc_done"
    /\ stress.contrast_ratio = 1000
    /\ weights.contrast_ratio = MaxWeight
    /\ DOMAIN stress.tests # {}
    /\ \A k \in DOMAIN stress.tests : stress.tests[k]
    /\ score = 100

\* C9: grade_from_score maps every score in 0..255 to exactly one grade, the
\* bands inclusive at the lower edge: >= 80 A, 60..79 B, 40..59 C, 20..39 D,
\* <= 19 F.
C9_GradeBands ==
    pc = "gr_done" =>
        /\ grade \in {"A", "B", "C", "D", "F"}
        /\ (grade = "A") <=> (score \in 80..255)
        /\ (grade = "B") <=> (score \in 60..79)
        /\ (grade = "C") <=> (score \in 40..59)
        /\ (grade = "D") <=> (score \in 20..39)
        /\ (grade = "F") <=> (score \in 0..19)

\* C9's case: the lowest score of band A was graded.
C9_Witness ==
    /\ pc = "gr_done"
    /\ score = 80
    /\ grade = "A"

----------------------------------------------------------------------------
(***************************************************************************)
(* Claims about validate.                                                  *)
(***************************************************************************)

\* C10: in validate the dimension guard runs before any decode work: for a
\* loaded raster whose width or height exceeds 10,000 no decode strategy and
\* no stress test is ever executed and validate returns DimensionsTooLarge
\* with that width, that height and max 10,000; a raster within the limits
\* never produces a dimension error.
C10_DimensionGuardBeforeDecode ==
    /\ (img.loaded /\ (img.width > 10000 \/ img.height > 10000)) =>
        /\ attempts = <<>>
        /\ ~stress.done
        /\ pc \in {"v_dims", "v_done"}
        /\ pc = "v_done" =>
            vResult = VError("DimensionsTooLarge", img.width, img.height, 10000)
    /\ (img.loaded /\ img.width <= 10000 /\ img.height <= 10000) =>
        vResult.tag \notin {"DimensionsTooLarge", "DimensionOverflow"}
    /\ (attempts # <<>> \/ stress.done) =>
        (img.loaded /\ img.width <= 10000 /\ img.height <= 10000)

\* C10's case: a raster of width 1 and height 10,001 was rejected.
C10_Witness ==
    /\ pc = "v_done"
    /\ img = [loaded |-> TRUE, width |-> 1, height |-> 10001]
    /\ vResult.tag = "DimensionsTooLarge"
    /\ vResult.max_dimension = 10000
    /\ attempts = <<>>

\* C11 as stated: validate_dimensions reports DimensionOverflow{width,height}
\* for every width and height whose product overflows the unsigned 32-bit
\* range, and DimensionsTooLarge{width,height,max} for every width or height
\* above the maximum of 10,000.
C11_OverflowReportedAsOverflow ==
    (pc = "v_done" /\ img.loaded) =>
        /\ checked_mul_is_none(img.width, img.height) =>
            vResult = VError("DimensionOverflow", img.width, img.height, 0)
        /\ (img.width > 10000 \/ img.height > 10000) =>
            vResult = VError("DimensionsTooLarge", img.width, img.height, 10000)

\* C11, amended: validate_dimensions reports DimensionsTooLarge{width,height,
\* max 10,000} exactly for the rasters with a width or height above 10,000,
\* among them every raster whose product overflows 32 bits; DimensionOverflow
\* is never reported.
C11_TooLargeCoversOverflow ==
    /\ vResult.tag # "DimensionOverflow"
    /\ (pc = "v_done" /\ img.loaded) =>
        /\ (img.width > 10000 \/ img.height > 10000) <=>
            (vResult = VError("DimensionsTooLarge", img.width, img.height, 10000))
        /\ checked_mul_is_none(img.width, img.height) =>
            vResult.tag = "DimensionsTooLarge"

\* C11's case: a 65,536 x 65,536 raster, whose product is 2^32, was rejected.
C11_Witness ==
    /\ pc = "v_done"
    /\ img = [loaded |-> TRUE, width |-> 65536, height |-> 65536]
    /\ checked_mul_is_none(img.width, img.height)
    /\ vResult.tag = "DimensionsTooLarge"

\* C12: when the decode ensemble fails on the original image, validate
\* returns DecodeFailed and neither the stress matrix nor the score
\* computation is run; the stress matrix runs only after a successful baseline
\* decode, and the ValidationResult then has decodable = true and the baseline
\* decode's content.
C12_BaselineDecodeGatesScoring ==
    /\ (pc = "v_done" /\ tdResult = DecodeFailed) => vResult = VError("DecodeFailed", 0, 0, 0)
    /\ tdResult.tag # "Ok" => (~stress.done /\ divisor = -1 /\ vResult.tag # "Ok")
    /\ stress.done => (tdResult.tag = "Ok" /\ pc = "v_done")
    /\ vResult.tag = "Ok" =>
        /\ stress.done
        /\ vResult.decodable
        /\ vResult.content = tdResult.content
        /\ vResult.content = attempts[Len(attempts)].res.content
        /\ vResult.score = score

\* C12's case: all four strategies failed on the original image and validate
\* returned DecodeFailed without a stress run.
C12_Witness ==
    /\ pc = "v_done"
    /\ Len(attempts) = 4
    /\ tdResult = DecodeFailed
    /\ vResult.tag = "DecodeFailed"
    /\ ~stress.done

----------------------------------------------------------------------------
(***************************************************************************)
(* Claims about the decode metadata.                                       *)
(***************************************************************************)

\* C16: every successful result of try_decode carries metadata with an
\* error-correction level in {L, M, Q, H}; when the succeeding strategy
\* reports no level, or a level that does not parse as L, M, Q or H, the
\* level is M (and a level that does parse is the one reported).
C16_ErrorCorrectionDefaultsToM ==
    tdResult.tag = "Ok" =>
        LET a == attempts[Len(attempts)]
        IN  /\ tdResult.error_correction \in {"L", "M", "Q", "H"}
            /\ a.strategy \in {"rxing_hybrid", "rxing_global_histogram"} =>
                 IF a.ec_str \in {"L", "M", "Q", "H"}
                 THEN tdResult.error_correction = a.ec_str
                 ELSE tdResult.error_correction = "M"
            /\ a.strategy \in {"rqrr", "rqrr_inverted"} =>
                 /\ a.ecc_level \notin 0..3 => tdResult.error_correction = "M"
                 /\ a.ecc_level = 1 => tdResult.error_correction = "L"
                 /\ a.ecc_level = 2 => tdResult.error_correction = "H"
                 /\ a.ecc_level = 3 => tdResult.error_correction = "Q"
                 /\ a.ecc_level = 0 => tdResult.error_correction = "M"

\* C16's case: rxing succeeded with a level string that names no level.
C16_Witness ==
    /\ pc = "td_done"
    /\ tdResult.tag = "Ok"
    /\ attempts[Len(attempts)].strategy = "rxing_global_histogram"
    /\ attempts[Len(attempts)].ec_str = "X"
    /\ tdResult.error_correction = "M"

----------------------------------------------------------------------------
(***************************************************************************)
(* Claims about the parallel evaluation of the matrix.                     *)
(***************************************************************************)

EntriesNamed(n) ==
    {<<w, j>> \in (1..NumWorkers) \X (1..NumVariants) :
        j <= Len(wout[w]) /\ wout[w][j].name = n}

\* C15: the mapping returned by run_stress_tests is the same for every order
\* and interleaving in which the workers evaluate and complete the variants:
\* while the workers run, each one has written exactly the entries of its own
\* variants, each with the boolean of that variant's own decode; after the
\* join every one of the 22 names has exactly one produced entry and the
\* mapping holds that entry's boolean: none is lost, duplicated or
\* overwritten by another.
C15_OrderIndependentMapping ==
    /\ pc \in {"st_par", "st_done"} =>
        \A w \in 1..NumWorkers :
            /\ Len(wout[w]) = wnext[w] - ChunkLo(w)
            /\ \A j \in 1..Len(wout[w]) :
                /\ wout[w][j].name = VariantNames[ChunkLo(w) + j - 1]
                /\ wout[w][j].passed = (wout[w][j].decode = "Ok")
    /\ pc = "st_done" =>
        /\ \A i \in 1..NumVariants : Cardinality(EntriesNamed(VariantNames[i])) = 1
        /\ stress.tests =
              [n \in {VariantNames[i] : i \in 1..NumVariants} |->
                  LET e == CHOOSE e \in EntriesNamed(n) : TRUE
                  IN  wout[e[1]][e[2]].passed]

\* C15's case: the join happened after the first worker's first variant
\* failed to decode while every other variant, of either worker, decoded.
C15_Witness ==
    /\ pc = "st_done"
    /\ base = "pass"
    /\ wout[1][1].decode = "Err"
    /\ \A n \in DOMAIN stress.tests : stress.tests[n] = (n # VariantNames[1])

\* While the workers run, any of them can be ahead of any other.
C15_InterleavingWitness ==
    /\ pc = "st_par"
    /\ Len(wout[NumWorkers]) > 0
    /\ Len(wout[1]) = 0

----------------------------------------------------------------------------
(***************************************************************************)
(* measure_contrast (scorer.rs 131-183).  An image is the number of its    *)
(* pixels of each colour; luminances are in millionths, the result and the *)
(* percentiles in thousandths, which are the histogram's bin numbers.      *)
(***************************************************************************)

LastBin == 1000

\* relative_luminance of (0,0,0), (128,128,128) and (255,255,255).
relative_luminance(c) ==
    CASE c = "black" -> 0
      [] c = "grey" -> 215861
      [] OTHER -> 1000000

\* (lum * 1000.0).round().min(1000.0) as usize
bin_of(c) ==
    LET rounded == (relative_luminance(c) + 500) \div 1000
    IN  IF rounded > LastBin THEN LastBin ELSE rounded

\* raw.len() / 3
total_pixels(px) == px["black"] + px["grey"] + px["white"]

\* The histogram after the loop over the pixels.
histogram(px) ==
    [i \in 0..LastBin |->
        (IF bin_of("black") = i THEN px["black"] ELSE 0)
        + (IF bin_of("grey") = i THEN px["grey"] ELSE 0)
        + (IF bin_of("white") = i THEN px["white"] ELSE 0)]

\* One iteration of the cumulative pass, at bin i: p5 is assigned where the
\* running count crosses p5_target, and the pass ends (break) where it
\* crosses p95_target.
scan_bin(st, h, i, p5_target, p95_target) ==
    IF st.reached THEN st
    ELSE LET prev == st.cumulative
             cum == st.cumulative + h[i]
             p5n == IF prev < p5_target /\ cum >= p5_target THEN i ELSE st.p5
         IN  IF prev < p95_target /\ cum >= p95_target
             THEN [cumulative |-> cum, p5 |-> p5n, p95 |-> i, reached |-> TRUE]
             ELSE [cumulative |-> cum, p5 |-> p5n, p95 |-> st.p95, reached |-> FALSE]

\* The iterations at the bins lo..hi, in increasing order.
RECURSIVE scan_bins(_, _, _, _, _, _)
scan_bins(st, h, lo, hi, p5_target, p95_target) ==
    IF st.reached THEN st
    ELSE IF lo = hi THEN scan_bin(st, h, lo, p5_target, p95_target)
    ELSE LET mid == (lo + hi) \div 2
         IN  scan_bins(scan_bins(st, h, lo, mid, p5_target, p95_target),
                       h, mid + 1, hi, p5_target, p95_target)

\* The whole pass: cumulative = 0, p5 = 0.0 and p95 = 1.0 before the loop.
percentile_scan(h, p5_target, p95_target) ==
    scan_bins([cumulative |-> 0, p5 |-> 0, p95 |-> LastBin, reached |-> FALSE],
              h, 0, LastBin, p5_target, p95_target)

\* The bug of a missing empty check: the pass runs on an image of no pixels.
measure_contrast_NoEmptyCheck(px) ==
    LET total == total_pixels(px)
        p5_target == total \div 20
        p95_target == total - p5_target
        r == percentile_scan(histogram(px), p5_target, p95_target)
    IN  [done |-> TRUE, empty |-> total = 0, value |-> r.p95 - r.p5,
         p5 |-> r.p5, p95 |-> r.p95, reached |-> r.reached]

measure_contrast(px) ==
    LET total == total_pixels(px)
        p5_target == total \div 20
        p95_target == total - p5_target
        r == percentile_scan(histogram(px), p5_target, p95_target)
    IN  IF total = 0
        THEN [done |-> TRUE, empty |-> TRUE, value |-> 0, p5 |-> 0, p95 |-> 0,
              reached |-> FALSE]
        ELSE [done |-> TRUE, empty |-> FALSE, value |-> r.p95 - r.p5,
              p5 |-> r.p5, p95 |-> r.p95, reached |-> r.reached]

MeasureContrast ==
    /\ pc = "mc_start"
    /\ contrast' = measure_contrast(pixels)
    /\ pc' = "mc_done"
    /\ UNCHANGED <<attempts, tdResult, img, vResult, base, faults, wnext, wout, stress,
                   weights, score, divisor, grade, pixels, cli, payload>>

InitContrast ==
    /\ pc = "mc_start"
    /\ DecodeIdle
    /\ ImageIdle
    /\ CliIdle
    /\ ScoreIdle
    /\ pixels \in [Colours -> 0..MaxCount]
    /\ contrast = NoContrast

NextContrast == MeasureContrast

SpecContrast == InitContrast /\ [][NextContrast]_vars

----------------------------------------------------------------------------
(***************************************************************************)
(* Claims about the contrast measurement.                                  *)
(***************************************************************************)

Uniform(px) == \E c \in Colours : px[c] > 0 /\ \A d \in Colours \ {c} : px[d] = 0

\* C14: for every non-empty image in which all pixels have the same colour
\* (any colour, any pixel count) measure_contrast returns a value within
\* 0.01 of 0.0.
C14_UniformImageNearZero ==
    (pc = "mc_done" /\ Uniform(pixels)) => contrast.value <= 10

\* C17: for every image measure_contrast returns a value in [0,1]: the p5
\* bin found by the cumulative pass is never above the p95 bin, the p95
\* target is always reached, and an empty image returns 0.0.
C17_ContrastInUnitRange ==
    pc = "mc_done" =>
        /\ contrast.value \in 0..1000
        /\ total_pixels(pixels) = 0 => contrast.value = 0
        /\ total_pixels(pixels) > 0 =>
              /\ contrast.reached
              /\ contrast.p5 <= contrast.p95
              /\ contrast.value = contrast.p95 - contrast.p5

\* C17's case: an image of fewer than 20 pixels, black and white, measured.
C17_Witness ==
    /\ pc = "mc_done"
    /\ total_pixels(pixels) \in 1..19
    /\ pixels["black"] > 0
    /\ pixels["white"] > 0
    /\ contrast.value = 1000

----------------------------------------------------------------------------
(***************************************************************************)
(* The scoring mode of the command line tool: main (main.rs 64-130) and    *)
(* score_svg_bytes (render.rs 64-82).                                      *)
(***************************************************************************)

\* The larger side of the document, as u32, and the configured render size.
NativeValues == {0, 100, 10000, 10001, 1073741824}
ConfigRenderSizes == {0, 400}

Max(a, b) == IF a >= b THEN a ELSE b

\* The Display of QrScoreError, as the pieces of the message.
error_display(e) ==
    CASE e.tag = "ImageLoad" -> <<"Failed to load image: ", "detail">>
      [] e.tag = "DecodeFailed" -> <<"No QR code found in image">>
      [] e.tag = "InvalidSvg" -> <<"Invalid SVG: ", "detail">>
      [] e.tag = "RenderFailed" -> <<"Failed to render SVG to PNG">>
      [] e.tag = "DimensionsTooLarge" ->
            <<"Image too large: ", e.width, "x", e.height, " exceeds maximum ",
              e.max_dimension, "x", e.max_dimension>>
      [] e.tag = "DimensionOverflow" ->
            <<"Dimension overflow: ", e.width, " x ", e.height, " overflows">>
      [] OTHER -> <<"panic">>

CliError(tag) == [tag |-> tag, width |-> 0, height |-> 0, max_dimension |-> 0]

error_json(error) ==
    [score |-> 0, grade |-> "F", decodable |-> FALSE, error |-> error]

\* (sr.contrast_ratio * 100.0).round() as u8, of a ratio in thousandths.
contrast_percent(c) == (c + 5) \div 10

\* The Output of a ValidationResult.
output_json(result, sr) ==
    [score |-> result.score, grade |-> grade_from_score(result.score),
     decodable |-> result.decodable, content |-> result.content,
     results |-> [tests |-> sr.tests, contrast_ratio |-> sr.contrast_ratio],
     contrast_ratio |-> contrast_percent(sr.contrast_ratio),
     error_correction |-> result.error_correction]

\* config.native_size.unwrap_or(100) of run_stress_tests.
config_native == IF cli.rendered THEN cli.native ELSE 100

\* Whether one of native * 2, native * 3, native * 4 exceeds u32.
downscale_overflows(native) == \E k \in 1..4 : checked_mul_is_none(native, k)

\* main.rs 69-77: stdin is read; a read error is reported, no input ends the
\* run silently.
CliReadStdin ==
    /\ pc = "cli_start"
    /\ \/ /\ payload' = [kind |-> "error", exit |-> 1,
                         json |-> error_json(<<"Failed to read stdin: ", "detail">>)]
          /\ pc' = "cli_exit"
       \/ /\ payload' = [kind |-> "none", exit |-> 0]
          /\ pc' = "cli_exit"
       \/ /\ payload' = payload
          /\ pc' = "svg_parse"
    /\ UNCHANGED <<attempts, tdResult, img, vResult, base, faults, wnext, wout, stress,
                   weights, score, divisor, grade, pixels, contrast, cli>>

\* The bug of rendering at the configured size whatever the native size is.
ScoreSvgParse_ConfigSizeOnly ==
    /\ pc = "svg_parse"
    /\ \/ /\ cli' = [cli EXCEPT !.svg = "invalid", !.result = "Err",
                                !.error = CliError("InvalidSvg")]
          /\ pc' = "cli_match"
       \/ /\ \E n \in NativeValues, c \in ConfigRenderSizes :
                cli' = [cli EXCEPT !.svg = "valid", !.native = n,
                                   !.config_render_size = c,
                                   !.render_size = c]
          /\ pc' = "svg_render"
    /\ UNCHANGED <<attempts, tdResult, img, vResult, base, faults, wnext, wout, stress,
                   weights, score, divisor, grade, pixels, contrast, payload>>

\* render.rs 69-75: the document is parsed, the configuration loaded, and
\* the render size is the larger of the configured and the native size.
ScoreSvgParse ==
    /\ pc = "svg_parse"
    /\ \/ /\ cli' = [cli EXCEPT !.svg = "invalid", !.result = "Err",
                                !.error = CliError("InvalidSvg")]
          /\ pc' = "cli_match"
       \/ /\ \E n \in NativeValues, c \in ConfigRenderSizes :
                cli' = [cli EXCEPT !.svg = "valid", !.native = n,
                                   !.config_render_size = c,
                                   !.render_size = Max(c, n)]
          /\ pc' = "svg_render"
    /\ UNCHANGED <<attempts, tdResult, img, vResult, base, faults, wnext, wout, stress,
                   weights, score, divisor, grade, pixels, contrast, payload>>

\* render.rs 77: svg_to_png gives a square PNG of the render size, or None
\* (always None for a pixmap of size 0).
ScoreSvgRender ==
    /\ pc = "svg_render"
    /\ \/ /\ cli' = [cli EXCEPT !.result = "Err", !.error = CliError("RenderFailed")]
          /\ pc' = "cli_match"
       \/ /\ cli.render_size > 0
          /\ cli' = [cli EXCEPT !.rendered = TRUE]
          /\ pc' = "v_start"
    /\ UNCHANGED <<attempts, tdResult, img, vResult, base, faults, wnext, wout, stress,
                   weights, score, divisor, grade, pixels, contrast, payload>>

\* The bug of a missing catch_unwind: a panic of validate leaves
\* score_svg_bytes and main by unwinding.
ScoreSvgCatch_Propagates ==
    /\ pc = "v_done"
    /\ cli.rendered
    /\ IF vResult.tag = "Ok"
       THEN /\ cli' = [cli EXCEPT !.result = "Ok"]
            /\ pc' = "cli_match"
       ELSE IF vResult.tag = "Panic"
       THEN /\ cli' = [cli EXCEPT !.result = "Panic"]
            /\ pc' = "cli_exit"
       ELSE /\ cli' = [cli EXCEPT !.result = "Err",
                          !.error = [tag |-> vResult.tag, width |-> vResult.width,
                                     height |-> vResult.height,
                                     max_dimension |-> vResult.max_dimension]]
            /\ pc' = "cli_match"
    /\ UNCHANGED <<attempts, tdResult, img, vResult, base, faults, wnext, wout, stress,
                   weights, score, divisor, grade, pixels, contrast, payload>>

\* render.rs 80-81: validate has come back inside catch_unwind; a panic
\* becomes Err(DecodeFailed), anything else is handed on.
ScoreSvgCatch ==
    /\ pc = "v_done"
    /\ cli.rendered
    /\ IF vResult.tag = "Ok"
       THEN cli' = [cli EXCEPT !.result = "Ok"]
       ELSE IF vResult.tag = "Panic"
       THEN cli' = [cli EXCEPT !.result = "Err", !.error = CliError("DecodeFailed")]
       ELSE cli' = [cli EXCEPT !.result = "Err",
                       !.error = [tag |-> vResult.tag, width |-> vResult.width,
                                  height |-> vResult.height,
                                  max_dimension |-> vResult.max_dimension]]
    /\ pc' = "cli_match"
    /\ UNCHANGED <<attempts, tdResult, img, vResult, base, faults, wnext, wout, stress,
                   weights, score, divisor, grade, pixels, contrast, payload>>

\* The bug of a partial payload: a decode failure is printed as an Output
\* with no content.
CliEmit_PartialOnDecodeFailed ==
    /\ pc = "cli_match"
    /\ IF cli.result = "Ok"
       THEN payload' = [kind |-> "output", exit |-> 0,
                        json |-> output_json(vResult, stress)]
       ELSE IF cli.error.tag = "DecodeFailed"
       THEN payload' = [kind |-> "output", exit |-> 0,
                        json |-> output_json([vResult EXCEPT !.score = 0], stress)]
       ELSE payload' = [kind |-> "error", exit |-> 1,
                        json |-> error_json(error_display(cli.error))]
    /\ pc' = "cli_exit"
    /\ UNCHANGED <<attempts, tdResult, img, vResult, base, faults, wnext, wout, stress,
                   weights, score, divisor, grade, pixels, contrast, cli>>

\* main.rs 112-130: the Result of score_svg_bytes is printed, as an Output
\* or as an ErrorOutput with exit code 1.
CliEmit ==
    /\ pc = "cli_match"
    /\ IF cli.result = "Ok"
       THEN payload' = [kind |-> "output", exit |-> 0,
                        json |-> output_json(vResult, stress)]
       ELSE payload' = [kind |-> "error", exit |-> 1,
                        json |-> error_json(error_display(cli.error))]
    /\ pc' = "cli_exit"
    /\ UNCHANGED <<attempts, tdResult, img, vResult, base, faults, wnext, wout, stress,
                   weights, score, divisor, grade, pixels, contrast, cli>>

InitCli ==
    /\ pc = "cli_start"
    /\ DecodeIdle
    /\ OtherIdle
    /\ base = "none"
    /\ faults = 0
    /\ wnext = <<>>
    /\ wout = <<>>
    /\ stress = NoStress
    /\ weights = WeightsDefault
    /\ score = 0
    /\ divisor = -1
    /\ grade = "none"

NextCli ==
    \/ CliReadStdin
    \/ ScoreSvgParse
    \/ ScoreSvgRender
    \/ ValidateLoad
    \/ ValidateDimensions
    \/ TryRxingHybrid
    \/ TryRxingGlobalHistogram
    \/ TryRqrr
    \/ TryRqrrInverted
    \/ ValidateDecoded
    \/ ValidateScore
    \/ ScoreSvgCatch
    \/ CliEmit

SpecCli == InitCli /\ [][NextCli]_vars

----------------------------------------------------------------------------
(***************************************************************************)
(* Claims about the command line tool and score_svg_bytes.                 *)
(***************************************************************************)

PipelineErrors ==
    {"InvalidSvg", "RenderFailed", "ImageLoad", "DimensionsTooLarge",
     "DimensionOverflow", "DecodeFailed"}

\* A stage of the pipeline has failed in this run.
PipelineFailed ==
    \/ cli.svg = "invalid"
    \/ cli.svg = "valid" /\ ~cli.rendered
    \/ cli.rendered /\ vResult.tag # "Ok"

\* C13: in the scoring mode every failure of the pipeline (InvalidSvg,
\* RenderFailed, ImageLoad, DimensionsTooLarge, DimensionOverflow,
\* DecodeFailed) is presented as a payload with score 0, grade F, decodable
\* false and the error's detail, with exit code 1, and a success payload is
\* never emitted for a failed run.
C13_FailureIsErrorPayload ==
    pc = "cli_exit" =>
        /\ (cli.svg # "none" /\ PipelineFailed) =>
              /\ cli.result = "Err"
              /\ cli.error.tag \in PipelineErrors
              /\ payload.kind = "error"
              /\ payload.exit = 1
              /\ payload.json = [score |-> 0, grade |-> "F", decodable |-> FALSE,
                                 error |-> error_display(cli.error)]
        /\ payload.kind = "output" =>
              /\ ~PipelineFailed
              /\ cli.result = "Ok"
              /\ tdResult.tag = "Ok"
              /\ payload.json.decodable
              /\ payload.json.content = tdResult.content
              /\ payload.json.results.tests = stress.tests

\* C13's case: the raster was too large and the error payload was printed.
C13_Witness ==
    /\ pc = "cli_exit"
    /\ vResult.tag = "DimensionsTooLarge"
    /\ payload.kind = "error"
    /\ payload.json.score = 0
    /\ payload.json.grade = "F"
    /\ payload.json.error = <<"Image too large: ", 10001, "x", 10001,
                              " exceeds maximum ", 10000, "x", 10000>>

\* C18: score_svg_bytes never lets a crash escape: a panic raised inside
\* validate on the rendered image (such as a decoder crash of the baseline
\* decode that the ensemble did not catch) is converted to the error
\* DecodeFailed, and no ValidationResult is returned for that run.
C18_ValidatePanicBecomesDecodeFailed ==
    /\ cli.result \in {"None", "Ok", "Err"}
    /\ (pc \in {"cli_match", "cli_exit"} /\ vResult.tag = "Panic") =>
          /\ cli.result = "Err"
          /\ cli.error = CliError("DecodeFailed")
    /\ (pc = "cli_exit" /\ vResult.tag = "Panic") =>
          /\ payload.kind = "error"
          /\ payload.json.error = <<"No QR code found in image">>

\* C18's case: rqrr crashed in the baseline decode, validate unwound, and
\* the run ended with DecodeFailed.
C18_Witness ==
    /\ pc = "cli_exit"
    /\ tdResult = Unwinding
    /\ vResult.tag = "Panic"
    /\ cli.result = "Err"
    /\ cli.error.tag = "DecodeFailed"

\* C19: the raster is rendered at max(configured render_size, native), so
\* the render size is never below the native size, and whenever the stress
\* matrix is reached the dimension guard has ensured
\* native <= render size <= 10,000, so the downscale targets native * 1, 2,
\* 3, 4 of run_stress_tests do not overflow u32.
C19_RenderSizeCoversNative ==
    /\ cli.svg = "valid" =>
          /\ cli.render_size = Max(cli.config_render_size, cli.native)
          /\ cli.render_size >= cli.native
    /\ (cli.rendered /\ img.loaded) =>
          /\ img.width = cli.render_size
          /\ img.height = cli.render_size
    /\ (cli.rendered /\ (pc = "v_score" \/ stress.done)) =>
          /\ config_native = cli.native
          /\ cli.native <= cli.render_size
          /\ cli.render_size <= MAX_DIMENSION
          /\ ~downscale_overflows(config_native)

\* C19's case: a document of native size 10,000 with a configured size of
\* 400 was rendered at 10,000 and its stress matrix ran.
C19_Witness ==
    /\ stress.done
    /\ cli.rendered
    /\ cli.native = 10000
    /\ cli.config_render_size = 400
    /\ cli.render_size = 10000

====
